---- MODULE Spec2Model ----
(***************************************************************************)
(* Product Discovery & Interaction Engine of the marketplace backend       *)
(* (node-app): the Express route table, the product and user-interaction   *)
(* controllers, the authentication middleware and the Mongoose models.     *)
(*                                                                         *)
(* Every request is handled by an async handler; each `await` on a store   *)
(* operation is a point where other requests may run.  A request occupies  *)
(* a slot; the actions below are the handler's steps between awaits.       *)
(*                                                                         *)
(* The last part is the web client's optimistic like (react-app): the      *)
(* product store's liked list and the like mutations of the hooks.         *)
(***************************************************************************)
EXTENDS Integers, Sequences, FiniteSets, TLC

VARIABLES
    users,      \* ids of the User documents in the store
    liked,      \* liked[u]: the likedProducts array of user u
    products,   \* the Product collection: id -> document
    nextId,     \* next product id the store assigns (ids are never reused)
    req,        \* req[s]: the request being handled in slot s
    nreq,       \* number of requests received so far
    resp,       \* the response sent last, with the request it answers
    calls,      \* history: calls[<<u,p>>] = like requests of u that found p
    fetched,    \* history: fetched[p] = detail fetches of p answered 200
    obs,        \* history: progress of two back-to-back like calls of one user
    store,      \* the web client's product store (its likedProducts list)
    mutations,  \* the web client's like mutations, in the order issued
    liked0      \* history: the client's likedProducts list when it started

vars == <<users, liked, products, nextId, req, nreq, resp, calls, fetched, obs,
          store, mutations, liked0>>

\* the variables of the web client
client == <<store, mutations, liked0>>

\* the variables of the server
server == <<users, liked, products, nextId, req, nreq, resp, calls, fetched, obs>>

----------------------------------------------------------------------------
(* Bounds of the model *)

MaxRequests == 4

Users == {"u1", "u2"}
\* ids the store assigns to products
ProductIds == {1}
\* requests handled at the same time
Slots == 1..2

----------------------------------------------------------------------------
(* Values *)

\* Numbers are kept in thousandths so that 0.01 and 0.005 are representable.
\* NaN is a value outside every range the model uses.
NaN == 0 - 1000000000

\* price: min: [0.01, ...] of the product schema, in thousandths
PriceMin == 10
\* latitude and longitude limits of the schemas, in thousandths of a degree
LatMax == 90000
LongMax == 180000

IsNaN(x) == x = NaN

\* parseFloat on the request strings the model draws from
parseFloat(str) ==
    CASE str = "150"    -> 150000
      [] str = "0.005"  -> 5
      [] str = "0"      -> 0
      [] str = "0.1"    -> 100
      [] str = "0.5"    -> 500
      [] str = "100"    -> 100000
      [] str = "200"    -> 200000
      [] str = "1000"   -> 1000000
      [] str = "-5"     -> 0 - 5000
      [] str = "90"     -> 90000
      [] str = "91"     -> 91000
      [] str = "-180"   -> 0 - 180000
      [] str = "-181"   -> 0 - 181000
      [] OTHER          -> NaN

Abs(x) == IF x < 0 THEN -x ELSE x

\* The characters of the strings the model draws from
Chars(str) ==
    CASE str = "Cam"         -> <<"C", "a", "m">>
      [] str = "Pen"         -> <<"P", "e", "n">>
      [] str = "a camera kit" -> <<"a", " ", "c", "a", "m", "e", "r", "a", " ", "k", "i", "t">>
      [] str = "a blue pen"  -> <<"a", " ", "b", "l", "u", "e", " ", "p", "e", "n">>
      [] str = "Books"       -> <<"B", "o", "o", "k", "s">>
      [] str = "Other"       -> <<"O", "t", "h", "e", "r">>
      [] str = "cam"         -> <<"c", "a", "m">>
      [] str = "PEN"         -> <<"P", "E", "N">>
      [] str = "book"        -> <<"b", "o", "o", "k">>
      [] str = "p.n"         -> <<"p", ".", "n">>
      [] str = " "           -> <<" ">>
      [] str = "zzz"         -> <<"z", "z", "z">>
      [] OTHER               -> <<>>

\* String.prototype.toLowerCase on one character
toLowerCase(c) ==
    CASE c = "B" -> "b" [] c = "C" -> "c" [] c = "E" -> "e" [] c = "N" -> "n"
      [] c = "O" -> "o" [] c = "P" -> "p" [] OTHER -> c

\* A JavaScript value that is either a string or an ObjectId instance
ObjectId(x) == [t |-> "ObjectId", v |-> x]
String(x) == [t |-> "String", v |-> x]
toString(o) == [t |-> "String", v |-> o.v]

\* a !== b : strings compare by content, an object is only identical to itself
StrictNotEqual(a, b) ==
    IF a.t = "String" /\ b.t = "String" THEN a.v # b.v ELSE TRUE

\* a == b as MongooseArray.indexOf uses it: an ObjectId operand is turned
\* into its hex string first, then the loose comparison converts the element
LooseEqual(a, b) == toString(a).v = toString(b).v

NoDoc == [exists |-> FALSE]

Range(seq) == {seq[i] : i \in 1..Len(seq)}

\* MongooseArray.includes(productId) on an array of ObjectIds
Includes(arr, pid) ==
    \E i \in 1..Len(arr) : LooseEqual(String(pid), ObjectId(arr[i]))

\* $pull / $pullAll: removes every occurrence
Pull(arr, pid) == SelectSeq(arr, LAMBDA x : x # pid)

\* $push
Push(arr, pid) == Append(arr, pid)


----------------------------------------------------------------------------
(* Product schema and creation *)

\* enum of category, in the product schema and in the request schemas
Categories ==
    {"Electronics", "Clothing", "Books", "Home & Garden", "Sports", "Vehicles", "Other"}

\* validator of pLoc.coordinates: v = [longitude, latitude]
coordinatesValidator(v) ==
    /\ Len(v) = 2
    /\ v[1] >= 0 - LongMax /\ v[1] <= LongMax
    /\ v[2] >= 0 - LatMax /\ v[2] <= LatMax

\* min validator of price
priceValidator(x) == ~IsNaN(x) /\ x >= PriceMin

\* document validation run by save()
productValidate(d) ==
    /\ Len(Chars(d.pname)) >= 1 /\ Len(Chars(d.pname)) <= 100
    /\ Len(Chars(d.pdesc)) >= 1 /\ Len(Chars(d.pdesc)) <= 500
    /\ d.category \in Categories
    /\ priceValidator(d.price)
    /\ ~IsNaN(d.long) /\ ~IsNaN(d.lat)
    /\ coordinatesValidator(<<d.long, d.lat>>)

\* addProductSchema: the lengths of pname and pdesc, the category enum and
\* the refinements on price, plat and plong
addProductSchema(body) ==
    /\ Len(Chars(body.pname)) >= 3 /\ Len(Chars(body.pname)) <= 100
    /\ Len(Chars(body.pdesc)) >= 10 /\ Len(Chars(body.pdesc)) <= 500
    /\ body.category \in Categories
    /\ ~IsNaN(parseFloat(body.price)) /\ parseFloat(body.price) > 0
    /\ ~IsNaN(parseFloat(body.plat)) /\ Abs(parseFloat(body.plat)) <= LatMax
    /\ ~IsNaN(parseFloat(body.plong)) /\ Abs(parseFloat(body.plong)) <= LongMax

\* validate(addProductSchema) of the route: the middleware's file is not
\* among the sources; it answers 400 unless the schema accepts the fields
\* the request carries
validate(body) == addProductSchema(body)

\* Request bodies of POST /api/products: a valid one and the ones that differ
\* from it in one field.  likesCount is a field a client may add to the body
\* (0 - 1: the body carries none).
CreateBody(price, plat, plong, pimage, likesCount) ==
    [pname |-> "Cam", pdesc |-> "a camera kit", category |-> "Other",
     price |-> price, plat |-> plat, plong |-> plong, pimage |-> pimage,
     likesCount |-> likesCount]
CreateBodies ==
    {CreateBody("150", "90", "-180", TRUE, 0 - 1),
     CreateBody("150", "90", "-180", TRUE, 7),
     CreateBody("150", "90", "-180", FALSE, 0 - 1),
     CreateBody("0.005", "90", "-180", TRUE, 0 - 1),
     CreateBody("0", "90", "-180", TRUE, 0 - 1),
     CreateBody("-5", "90", "-180", TRUE, 0 - 1),
     CreateBody("abc", "90", "-180", TRUE, 0 - 1),
     CreateBody("150", "91", "-180", TRUE, 0 - 1),
     CreateBody("150", "90", "-181", TRUE, 0 - 1)}

\* timestamps: true -- save() of a new document stamps createdAt; the clock
\* is the number of the insert
Timestamps(d, now) ==
    [f \in DOMAIN d \cup {"createdAt"} |-> IF f = "createdAt" THEN now ELSE d[f]]

\* Mutant: the whole request body is handed to the Product constructor
productData_fromBody(body, addedBy) ==
    [exists |-> TRUE, addedBy |-> addedBy.v,
     pname |-> body.pname, pdesc |-> body.pdesc, category |-> body.category,
     price |-> parseFloat(body.price),
     long |-> parseFloat(body.plong), lat |-> parseFloat(body.plat),
     status |-> "active",
     likesCount |-> IF body.likesCount >= 0 THEN body.likesCount ELSE 0,
     viewsCount |-> 0]

\* productData of addProduct, with the schema defaults new Product() fills in
productData(body, addedBy) ==
    [exists |-> TRUE, addedBy |-> addedBy.v,
     pname |-> body.pname, pdesc |-> body.pdesc, category |-> body.category,
     price |-> parseFloat(body.price),
     long |-> parseFloat(body.plong), lat |-> parseFloat(body.plat),
     status |-> "active", likesCount |-> 0, viewsCount |-> 0]

----------------------------------------------------------------------------
(* Product update *)

\* Request bodies of PUT /api/products/:productId.  A body is the set of
\* its keys: the top-level fields price, likesCount, viewsCount, addedBy,
\* status and pLoc.coordinates, and the update operators $set: {addedBy}
\* and $inc: {price}.  Absent (a number) and "" (a string) mark a key the
\* body does not have.
Absent == 0 - 2000000000
NoBody ==
    [price |-> Absent, likesCount |-> Absent, viewsCount |-> Absent,
     addedBy |-> "", status |-> "", long |-> Absent, lat |-> Absent,
     setAddedBy |-> "", incPrice |-> Absent]

\* the bodies the model draws from: an edit of every field, one made of
\* update operators (each naming some user as the new addedBy), and two
\* that no validator accepts
FullBody(u) ==
    [NoBody EXCEPT !.price = 200000, !.likesCount = 0 - 1, !.viewsCount = 7,
                   !.addedBy = u, !.status = "sold"]
OperatorBody(u) == [NoBody EXCEPT !.setAddedBy = u, !.incPrice = 0 - 200000]
UpdateBodies ==
    {FullBody(u) : u \in Users} \cup {OperatorBody(u) : u \in Users}
    \cup {[NoBody EXCEPT !.price = 0 - 5000],
          [NoBody EXCEPT !.long = 500000, !.lat = 0]}

\* delete updates._id / addedBy / createdAt / updatedAt: top-level keys only
sanitize(body) == [body EXCEPT !.addedBy = ""]

\* the update document Mongoose sends: the top-level fields join $set
castUpdate(body) ==
    [set |-> [price |-> body.price, likesCount |-> body.likesCount,
              viewsCount |-> body.viewsCount, status |-> body.status,
              long |-> body.long, lat |-> body.lat,
              addedBy |-> IF body.addedBy # "" THEN body.addedBy ELSE body.setAddedBy],
     inc |-> [price |-> body.incPrice]]

\* runValidators: true -- update validators run on the $set paths, not on $inc
updateValidators(upd) ==
    /\ upd.set.price # Absent => priceValidator(upd.set.price)
    /\ upd.set.long # Absent => coordinatesValidator(<<upd.set.long, upd.set.lat>>)

\* the document after $set and $inc are applied
applyUpdate(d, upd) ==
    LET price == IF upd.set.price # Absent THEN upd.set.price ELSE d.price
    IN  [d EXCEPT
            !.price = IF upd.inc.price # Absent THEN price + upd.inc.price ELSE price,
            !.likesCount = IF upd.set.likesCount # Absent THEN upd.set.likesCount ELSE @,
            !.viewsCount = IF upd.set.viewsCount # Absent THEN upd.set.viewsCount ELSE @,
            !.status = IF upd.set.status # "" THEN upd.set.status ELSE @,
            !.addedBy = IF upd.set.addedBy # "" THEN upd.set.addedBy ELSE @,
            !.long = IF upd.set.long # Absent THEN upd.set.long ELSE @,
            !.lat = IF upd.set.lat # Absent THEN upd.set.lat ELSE @]

\* Mutant: the ownership comparison is made between the two id strings
ownershipMismatch_strings(doc, userId) ==
    StrictNotEqual(toString(ObjectId(doc.addedBy)), toString(userId))

\* Mutant: the ownership check is left out
ownershipMismatch_none(doc, userId) == FALSE

\* product.addedBy.toString() !== userId, userId being req.user.userId
ownershipMismatch(doc, userId) ==
    StrictNotEqual(toString(ObjectId(doc.addedBy)), userId)


----------------------------------------------------------------------------
(* Counter methods of the Product model *)

\* Mutant: the floor of decrementLikes is left out
decrementLikes_noFloor(d) == [d EXCEPT !.likesCount = @ - 1]

\* Mutant: the floor of decrementLikes is off by one
decrementLikes_floorOne(d) ==
    IF d.likesCount > 1 THEN [d EXCEPT !.likesCount = @ - 1] ELSE d

\* productSchema.methods.incrementViews, on the loaded document
incrementViews(d) == [d EXCEPT !.viewsCount = @ + 1]

\* productSchema.methods.incrementLikes, on the loaded document
incrementLikes(d) == [d EXCEPT !.likesCount = @ + 1]

\* productSchema.methods.decrementLikes, on the loaded document
decrementLikes(d) ==
    IF d.likesCount > 0 THEN [d EXCEPT !.likesCount = @ - 1] ELSE d

----------------------------------------------------------------------------
(* Requests *)

\* req.headers.authorization: no header, "Bearer <token>" with a token the
\* server signed for user u, with a token that does not verify, or with a
\* token of u that has expired
NoHeader == [kind |-> "missing", userId |-> ""]
Bearer(u) == [kind |-> "valid", userId |-> u]
Malformed == [kind |-> "malformed", userId |-> ""]
Expired(u) == [kind |-> "expired", userId |-> u]

Idle ==
    [op |-> "none", pc |-> "idle", uid |-> "", pid |-> 0, auth |-> NoHeader,
     userFound |-> FALSE, userLiked |-> <<>>, doc |-> NoDoc, isLiked |-> FALSE]

Free(s) == req[s].pc = "idle"

\* res.status(status).json(...): the response to request r, kept with the
\* request's user, product id, authorization header and body; isLiked is the
\* data.isLiked of a like response ("" when the response carries none)
Response(r, body, status, isLiked) ==
    [op |-> r.op, uid |-> r.uid, pid |-> r.pid, auth |-> r.auth, body |-> body,
     status |-> status, isLiked |-> isLiked]
NoResponse == Response(Idle, NoBody, 0, "")

\* the request in slot s is answered and the slot is free again
AnswerBody(s, r, body, status, isLiked) ==
    /\ req' = [req EXCEPT ![s] = Idle]
    /\ resp' = Response(r, body, status, isLiked)

Answer(s, r, status, isLiked) == AnswerBody(s, r, NoBody, status, isLiked)

\* Mutant: a lookup that misses answers with a fresh document
findProduct_upsert(pid) ==
    IF pid \in DOMAIN products
    THEN products[pid]
    ELSE Timestamps(productData(CreateBody("150", "90", "-180", TRUE, 0 - 1),
                                ObjectId("u1")), pid)

\* Product.findById
findProduct(pid) == IF pid \in DOMAIN products THEN products[pid] ELSE NoDoc

\* A request is in flight on product p / a like request of user u is in flight
InFlightOn(p) == \E s \in Slots : ~Free(s) /\ req[s].pid = p
LikeInFlightBy(u) == \E s \in Slots : ~Free(s) /\ req[s].op = "like" /\ req[s].uid = u

----------------------------------------------------------------------------
(* History of back-to-back like calls.  obs[<<u,p>>].st is 1 while a first  *)
(* like call of u on p runs that started with nothing else in flight on p,  *)
(* 2 when it has been answered, 3 while the next call of u on p runs and 4  *)
(* when that one has been answered.  Any other step on p, or of another     *)
(* like request of u, ends the observation.                                 *)

ObsIdle == [st |-> 0, slot |-> 0, likes0 |-> 0, liked0 |-> <<>>, r1 |-> "", r2 |-> ""]

ObsDisturbed(k, s, uid, pid) ==
    /\ obs[k].st > 0
    /\ k[2] = pid \/ k[1] = uid
    /\ ~(obs[k].slot = s /\ obs[k].st \in {1, 3})

\* a step of slot s for user uid (or "") on product pid
ObsStep(s, uid, pid) ==
    [k \in DOMAIN obs |-> IF ObsDisturbed(k, s, uid, pid) THEN ObsIdle ELSE obs[k]]

\* a like request of u on p starts in slot s
ObsStart(s, u, p) ==
    [k \in DOMAIN obs |->
        IF k = <<u, p>>
        THEN IF obs[k].st = 2
             THEN [obs[k] EXCEPT !.st = 3, !.slot = s]
             ELSE IF /\ p \in DOMAIN products
                     /\ ~InFlightOn(p) /\ ~LikeInFlightBy(u)
                     /\ ~(p \in Range(liked[u]))
                  THEN [st |-> 1, slot |-> s, likes0 |-> products[p].likesCount,
                        liked0 |-> liked[u], r1 |-> "", r2 |-> ""]
                  ELSE ObsIdle
        ELSE IF ObsDisturbed(k, s, u, p) THEN ObsIdle ELSE obs[k]]

\* the like request in slot s is answered with ret
ObsAnswer(s, u, p, ret) ==
    [k \in DOMAIN obs |->
        IF k = <<u, p>> /\ obs[k].slot = s /\ obs[k].st = 1
        THEN [obs[k] EXCEPT !.st = 2, !.r1 = ret]
        ELSE IF k = <<u, p>> /\ obs[k].slot = s /\ obs[k].st = 3
        THEN [obs[k] EXCEPT !.st = 4, !.r2 = ret]
        ELSE IF ObsDisturbed(k, s, u, p) THEN ObsIdle ELSE obs[k]]


----------------------------------------------------------------------------
(* Initial state: an empty store, no request *)

\* initialState of the client's product store
initialState == [likedProducts |-> <<>>]

Init ==
    /\ users = {}
    /\ liked = [u \in Users |-> <<>>]
    /\ products = <<>>
    /\ nextId = 1
    /\ req = [s \in Slots |-> Idle]
    /\ nreq = 0
    /\ resp = NoResponse
    /\ calls = [k \in Users \X ProductIds |-> 0]
    /\ fetched = [p \in ProductIds |-> 0]
    /\ obs = [k \in Users \X ProductIds |-> ObsIdle]
    /\ store = initialState
    /\ mutations = <<>>
    /\ liked0 = <<>>

\* isActive of a user document: the schema default; no handler writes it
isActive == [u \in Users |-> TRUE]

\* jwt.verify: the decoded payload, or the name of the error it throws
verify(token) ==
    CASE token.kind = "valid" -> [error |-> "", userId |-> token.userId]
      [] token.kind = "expired" -> [error |-> "TokenExpiredError", userId |-> ""]
      [] OTHER -> [error |-> "JsonWebTokenError", userId |-> ""]

authenticateToken_noLookup(token) ==
    IF token.kind = "missing"
    THEN [status |-> 401, userId |-> ""]
    ELSE LET decoded == verify(token)
         IN  IF decoded.error # ""
             THEN [status |-> 401, userId |-> ""]
             ELSE [status |-> 200, userId |-> decoded.userId]

\* authenticateToken: the status it answers with (200 stands for next()) and
\* the user of req.user
authenticateToken(token) ==
    IF token.kind = "missing"
    THEN [status |-> 401, userId |-> ""]
    ELSE LET decoded == verify(token)
         IN  IF decoded.error \in {"JsonWebTokenError", "TokenExpiredError"}
             THEN [status |-> 401, userId |-> ""]
             ELSE IF decoded.userId \notin users
             THEN [status |-> 401, userId |-> ""]
             ELSE IF ~isActive[decoded.userId]
             THEN [status |-> 401, userId |-> ""]
             ELSE [status |-> 200, userId |-> decoded.userId]

\* a new request is received; it is handled in the first slot that is free
Receive(s) ==
    /\ Free(s)
    /\ \A t \in Slots : t < s => ~Free(t)
    /\ nreq < MaxRequests
    /\ nreq' = nreq + 1

\* the handler in slot s goes on to its next await with locals r
Continue(s, r) ==
    /\ req' = [req EXCEPT ![s] = r]
    /\ UNCHANGED resp

\* authenticateToken answers the request itself: next() is not called
Unauthorized(s, op, token, p, status) ==
    Answer(s, [Idle EXCEPT !.op = op, !.pid = p, !.auth = token], status, "")

----------------------------------------------------------------------------
(* POST /api/auth/signup *)

signup(u) ==
    /\ u \notin users
    /\ users' = users \cup {u}
    /\ UNCHANGED <<liked, products, nextId, req, nreq, resp, calls, fetched, obs,
                   client>>

----------------------------------------------------------------------------
(* POST /api/products: authenticateToken, validate(addProductSchema),      *)
(* upload, addProduct.  The only store operation is the insert.            *)

addProduct(s, token, body) ==
    LET a == authenticateToken(token)
        u == a.userId
        userId == ObjectId(u)
        d == Timestamps(productData(body, userId), nextId)
        ok == validate(body) /\ body.pimage /\ productValidate(d)
        r == [Idle EXCEPT !.op = "create", !.uid = u, !.auth = token]
    IN  /\ Receive(s)
        /\ (a.status = 200 /\ ok) => nextId \in ProductIds
        /\ IF a.status # 200
           THEN /\ Unauthorized(s, "create", token, 0, a.status)
                /\ UNCHANGED <<products, nextId>>
           ELSE IF ok
           THEN /\ products' = [p \in DOMAIN products \cup {nextId} |->
                                   IF p = nextId THEN d ELSE products[p]]
                /\ nextId' = nextId + 1
                /\ AnswerBody(s, [r EXCEPT !.pid = nextId], body, 201, "")
           ELSE /\ UNCHANGED <<products, nextId>>
                /\ AnswerBody(s, r, body, 400, "")
        /\ UNCHANGED <<users, liked, calls, fetched, obs,
                       client>>

----------------------------------------------------------------------------
(* POST /api/like-product: authenticateToken, likeProducts *)

\* the request is received; const user = await User.findById(userId)
likeProducts(s, token, p) ==
    LET a == authenticateToken(token)
        u == a.userId
    IN
    /\ Receive(s)
    /\ IF a.status # 200
       THEN /\ Unauthorized(s, "like", token, p, a.status)
            /\ UNCHANGED obs
       ELSE /\ Continue(s, [Idle EXCEPT !.op = "like", !.pc = "like_findProduct",
                                        !.uid = u, !.pid = p, !.auth = token,
                                        !.userFound = (u \in users),
                                        !.userLiked = liked[u]])
            /\ obs' = ObsStart(s, u, p)
    /\ UNCHANGED <<users, liked, products, nextId, calls, fetched,
                   client>>

\* const product = await Product.findById(productId); the two 404 checks;
\* isLiked = user.likedProducts.includes(productId)
likeFindProduct(s) ==
    LET r == req[s]
        d == findProduct(r.pid)
    IN  /\ r.pc = "like_findProduct"
        /\ IF ~r.userFound \/ ~d.exists
           THEN /\ Answer(s, r, 404, "")
                /\ obs' = ObsAnswer(s, r.uid, r.pid, "error")
                /\ UNCHANGED calls
           ELSE /\ Continue(s, [r EXCEPT !.pc = "like_saveProduct", !.doc = d,
                                         !.isLiked = Includes(r.userLiked, r.pid)])
                /\ obs' = ObsStep(s, r.uid, r.pid)
                /\ calls' = [calls EXCEPT ![<<r.uid, r.pid>>] = @ + 1]
        /\ UNCHANGED <<users, liked, products, nextId, fetched, nreq,
                       client>>

\* await product.decrementLikes() / incrementLikes(): the loaded document's
\* likesCount is changed and save() writes the modified path back
likeSaveProduct(s) ==
    LET r == req[s]
        d == IF r.isLiked THEN decrementLikes(r.doc) ELSE incrementLikes(r.doc)
        modified == d.likesCount # r.doc.likesCount
    IN  /\ r.pc = "like_saveProduct"
        /\ IF modified /\ r.pid \notin DOMAIN products
           THEN \* save() of a document that is gone rejects: the catch answers 500
                /\ Answer(s, r, 500, "")
                /\ obs' = ObsAnswer(s, r.uid, r.pid, "error")
                /\ UNCHANGED products
           ELSE /\ Continue(s, [r EXCEPT !.pc = "like_saveUser"])
                /\ obs' = ObsStep(s, r.uid, r.pid)
                /\ products' = IF modified
                               THEN [products EXCEPT ![r.pid].likesCount = d.likesCount]
                               ELSE products
        /\ UNCHANGED <<users, liked, nextId, calls, fetched, nreq,
                       client>>

\* user.likedProducts.pull / push, await user.save(), res.json
likeSaveUser(s) ==
    LET r == req[s]
        isLiked == IF r.isLiked THEN "false" ELSE "true"
    IN  /\ r.pc = "like_saveUser"
        /\ liked' = [liked EXCEPT ![r.uid] =
                        IF r.isLiked THEN Pull(@, r.pid) ELSE Push(@, r.pid)]
        /\ Answer(s, r, 200, isLiked)
        /\ obs' = ObsAnswer(s, r.uid, r.pid, isLiked)
        /\ UNCHANGED <<users, products, nextId, calls, fetched, nreq,
                       client>>

----------------------------------------------------------------------------
(* GET /api/products/:productId: getProductById *)

\* the request is received; const product = await Product.findById(productId)
getProductById(s, p) ==
    LET d == findProduct(p)
        r == [Idle EXCEPT !.op = "view", !.pid = p, !.doc = d]
    IN  /\ Receive(s)
        /\ IF d.exists
           THEN Continue(s, [r EXCEPT !.pc = "view_save"])
           ELSE Answer(s, r, 404, "")
        /\ obs' = ObsStep(s, "", p)
        /\ UNCHANGED <<users, liked, products, nextId, calls, fetched,
                       client>>

\* await product.incrementViews(); res.json
viewSave(s) ==
    LET r == req[s]
        d == incrementViews(r.doc)
    IN  /\ r.pc = "view_save"
        /\ IF r.pid \in DOMAIN products
           THEN /\ products' = [products EXCEPT ![r.pid].viewsCount = d.viewsCount]
                /\ Answer(s, r, 200, "")
                /\ fetched' = [fetched EXCEPT ![r.pid] = @ + 1]
           ELSE /\ Answer(s, r, 500, "")
                /\ UNCHANGED <<products, fetched>>
        /\ obs' = ObsStep(s, "", r.pid)
        /\ UNCHANGED <<users, liked, nextId, calls, nreq,
                       client>>

----------------------------------------------------------------------------
(* PUT /api/products/:productId: authenticateToken, updateProduct *)

\* the request is received; const product = await Product.findById(productId)
updateProduct(s, token, p) ==
    LET a == authenticateToken(token)
        u == a.userId
    IN
    /\ Receive(s)
    /\ IF a.status # 200
       THEN /\ Unauthorized(s, "update", token, p, a.status)
            /\ UNCHANGED obs
       ELSE /\ Continue(s, [Idle EXCEPT !.op = "update", !.pc = "update_check", !.uid = u,
                                        !.pid = p, !.auth = token,
                                        !.doc = findProduct(p)])
            /\ obs' = ObsStep(s, "", p)
    /\ UNCHANGED <<users, liked, products, nextId, calls, fetched,
                   client>>

\* the 404 and 403 checks, the deletes on the body, findByIdAndUpdate, res.json;
\* body is the request's req.body, which this step is the first to read
updateCheck(s, body) ==
    LET r == req[s]
        upd == castUpdate(sanitize(body))
    IN  /\ r.pc = "update_check"
        /\ IF ~r.doc.exists
           THEN /\ AnswerBody(s, r, body, 404, "")
                /\ UNCHANGED products
           ELSE IF ownershipMismatch(r.doc, ObjectId(r.uid))
           THEN /\ AnswerBody(s, r, body, 403, "")
                /\ UNCHANGED products
           ELSE IF ~updateValidators(upd)
           THEN \* the ValidationError is caught by the handler's catch
                /\ AnswerBody(s, r, body, 500, "")
                /\ UNCHANGED products
           ELSE /\ AnswerBody(s, r, body, 200, "")
                /\ products' = IF r.pid \in DOMAIN products
                               THEN [products EXCEPT ![r.pid] = applyUpdate(@, upd)]
                               ELSE products
        /\ obs' = ObsStep(s, "", r.pid)
        /\ UNCHANGED <<users, liked, nextId, calls, fetched, nreq,
                       client>>

----------------------------------------------------------------------------
(* DELETE /api/products/:productId: authenticateToken, deleteProduct *)

\* the request is received; const product = await Product.findById(productId)
deleteProduct(s, token, p) ==
    LET a == authenticateToken(token)
        u == a.userId
    IN
    /\ Receive(s)
    /\ IF a.status # 200
       THEN /\ Unauthorized(s, "delete", token, p, a.status)
            /\ UNCHANGED obs
       ELSE /\ Continue(s, [Idle EXCEPT !.op = "delete", !.pc = "delete_check", !.uid = u,
                                        !.pid = p, !.auth = token,
                                        !.doc = findProduct(p)])
            /\ obs' = ObsStep(s, "", p)
    /\ UNCHANGED <<users, liked, products, nextId, calls, fetched,
                   client>>

\* the 404 and 403 checks, findByIdAndDelete, res.json
deleteCheck(s) ==
    LET r == req[s]
    IN  /\ r.pc = "delete_check"
        /\ IF ~r.doc.exists
           THEN /\ Answer(s, r, 404, "")
                /\ UNCHANGED products
           ELSE IF ownershipMismatch(r.doc, ObjectId(r.uid))
           THEN /\ Answer(s, r, 403, "")
                /\ UNCHANGED products
           ELSE /\ Answer(s, r, 200, "")
                /\ products' = [p \in DOMAIN products \ {r.pid} |-> products[p]]
        /\ obs' = ObsStep(s, "", r.pid)
        /\ UNCHANGED <<users, liked, nextId, calls, fetched, nreq,
                       client>>

----------------------------------------------------------------------------

\* the requests to the routes behind authenticateToken carry the token of a
\* user who has signed up
Accepted == {Bearer(u) : u \in users}

Next ==
    \/ \E u \in Users : signup(u)
    \/ \E s \in Slots, token \in Accepted, body \in CreateBodies :
            addProduct(s, token, body)
    \/ \E s \in Slots, token \in Accepted, p \in ProductIds : likeProducts(s, token, p)
    \/ \E s \in Slots : likeFindProduct(s)
    \/ \E s \in Slots : likeSaveProduct(s)
    \/ \E s \in Slots : likeSaveUser(s)
    \/ \E s \in Slots, p \in ProductIds : getProductById(s, p)
    \/ \E s \in Slots : viewSave(s)
    \/ \E s \in Slots, token \in Accepted, p \in ProductIds : updateProduct(s, token, p)
    \/ \E s \in Slots, body \in UpdateBodies : updateCheck(s, body)
    \/ \E s \in Slots, token \in Accepted, p \in ProductIds : deleteProduct(s, token, p)
    \/ \E s \in Slots : deleteCheck(s)

Spec == Init /\ [][Next]_vars

----------------------------------------------------------------------------
(* Catalog queries: GET /api/products, /api/products/search and            *)
(* /api/products/category/:category.  They only read the Product           *)
(* collection; they are stated on a collection that is not written while   *)
(* they run.                                                               *)

MaxCatalog == 2

\* parseInt on the request strings the model draws from
parseInt(str) ==
    CASE str = "1" -> 1 [] str = "2" -> 2 [] str = "3" -> 3
      [] str = "10" -> 10 [] str = "0" -> 0 [] str = "1000" -> 1000
      [] OTHER -> NaN

\* cursor.sort(): every order of the ids that agrees with the key; documents
\* with equal keys come in an order the store chooses at each execution.
\* field is the field sorted on, dir is 1 or -1.
RECURSIVE Sorted(_, _, _)
Sorted(ids, field, dir) ==
    IF ids = {} THEN {<<>>}
    ELSE UNION {{<<m>> \o t : t \in Sorted(ids \ {m}, field, dir)} :
                    m \in {x \in ids : \A y \in ids :
                                dir * products[x][field] <= dir * products[y][field]}}

\* cursor.skip(skip).limit(limit) on the ordered ids; limit(0) is no limit
SkipLimit(o, skip, limit) ==
    LET last == IF limit = 0 \/ skip + limit > Len(o) THEN Len(o) ELSE skip + limit
    IN  SubSeq(o, skip + 1, last)

\* Math.ceil(a / b) for a >= 0, b > 0
Ceil(a, b) == (a + b - 1) \div b

\* Request bodies of the products a catalog holds: all pass addProductSchema
CatalogBody(pname, pdesc, category, price, plat) ==
    [CreateBody(price, plat, "0", TRUE, 0 - 1) EXCEPT
        !.pname = pname, !.pdesc = pdesc, !.category = category]
CatalogBodies ==
    {CatalogBody("Cam", "a camera kit", "Other", "100", "0"),
     CatalogBody("Cam", "a camera kit", "Books", "200", "0.1"),
     CatalogBody("Pen", "a blue pen", "Books", "100", "0.1"),
     CatalogBody("Pen", "a blue pen", "Books", "200", "0.5")}

\* The collection after n successful POST /api/products of user u1
Catalog(bodies) ==
    [i \in DOMAIN bodies |-> Timestamps(productData(bodies[i], ObjectId("u1")), i)]

----------------------------------------------------------------------------
(* GET /api/products: getProducts *)

\* req.query; "" is a parameter the request does not give
BrowseQuery(catName, page, limit, status, minPrice, maxPrice, sortBy) ==
    [catName |-> catName, page |-> page, limit |-> limit, status |-> status,
     minPrice |-> minPrice, maxPrice |-> maxPrice, sortBy |-> sortBy]
\* the listings the model draws from (category, status, price range and
\* sort), each with every page and page size
Listings ==
    {BrowseQuery("", "", "", "", "", "", sb) :
        sb \in {"", "price-asc", "price-desc", "newest"}}
    \cup {BrowseQuery("Books", "", "", "", "100", "200", "price-asc"),
          BrowseQuery("", "", "", "", "", "100", ""),
          BrowseQuery("", "", "", "", "200", "", ""),
          BrowseQuery("", "", "", "sold", "", "", "")}
BrowseQueries ==
    {[q EXCEPT !.page = pg, !.limit = l] :
        q \in Listings, pg \in {"", "2"}, l \in {"", "1", "2"}}
    \cup {BrowseQuery("", "0", "", "", "", "", ""),
          BrowseQuery("", "", "1000", "", "", "", "")}

\* Mutant: the upper price bound is left out of the query
browseFilter_noMax(q) ==
    [status |-> IF q.status = "" THEN "active" ELSE q.status,
     category |-> q.catName,
     gte |-> IF q.minPrice # "" THEN parseFloat(q.minPrice) ELSE Absent,
     lte |-> Absent]

\* the query document: { status, category, price: { $gte, $lte } }
browseFilter(q) ==
    [status |-> IF q.status = "" THEN "active" ELSE q.status,
     category |-> q.catName,
     gte |-> IF q.minPrice # "" THEN parseFloat(q.minPrice) ELSE Absent,
     lte |-> IF q.maxPrice # "" THEN parseFloat(q.maxPrice) ELSE Absent]

\* a document matches the query document
Matches(d, f) ==
    /\ d.status = f.status
    /\ f.category # "" => d.category = f.category
    /\ f.gte # Absent => d.price >= f.gte
    /\ f.lte # Absent => d.price <= f.lte

\* Product.find(query) / countDocuments(query): the ids of the matching documents
Find(f) == {p \in DOMAIN products : Matches(products[p], f)}

\* Mutant: price-desc sorts like price-asc
sortOptions_ascOnly(q) ==
    IF q.sortBy \in {"price-asc", "price-desc"}
    THEN [field |-> "price", dir |-> 1]
    ELSE [field |-> "createdAt", dir |-> 0 - 1]

\* sortOptions: { createdAt: -1 } unless sortBy is price-asc or price-desc
sortOptions(q) ==
    IF q.sortBy = "price-asc" THEN [field |-> "price", dir |-> 1]
    ELSE IF q.sortBy = "price-desc" THEN [field |-> "price", dir |-> 0 - 1]
    ELSE [field |-> "createdAt", dir |-> 0 - 1]

\* page = 1 and limit = 20 unless given
pageOf(q) == IF q.page = "" THEN 1 ELSE parseInt(q.page)
limitOf(q) == IF q.limit = "" THEN 20 ELSE parseInt(q.limit)

\* Mutant: hasNext whenever the page is not empty
hasNext_nonEmpty(skip, returned, total) == returned > 0

\* hasNext: skip + products.length < totalProducts
hasNext(skip, returned, total) == skip + returned < total

\* two requests list the same products in the same order and page size
SameListing(q1, q2) == [q1 EXCEPT !.page = ""] = [q2 EXCEPT !.page = ""]

\* the browse request has been answered with a page
BrowseAnswered == resp.op = "browse" /\ resp.status = 200

\* the handler on a collection that is not written while it runs.  acc is
\* history: the concatenation of pages 1..currentPage when the requests
\* before this one asked for them in turn (paged), each after a hasNext.
getProducts(q) ==
    LET f == browseFilter(q)
        so == sortOptions(q)
        skip == (pageOf(q) - 1) * limitOf(q)
        totalProducts == Cardinality(Find(f))
        follows == /\ BrowseAnswered /\ resp.paged /\ resp.hasNext
                   /\ SameListing(resp.query, q)
                   /\ pageOf(q) = resp.currentPage + 1
    IN  /\ IF skip < 0
           THEN \* the store rejects a negative skip: the catch answers 500
                resp' = [op |-> "browse", status |-> 500, query |-> q]
           ELSE
            \E o \in Sorted(Find(f), so.field, so.dir) :
            LET found == SkipLimit(o, skip, limitOf(q))
            IN  resp' = [op |-> "browse", status |-> 200, query |-> q,
                         products |-> found,
                         currentPage |-> pageOf(q),
                         totalPages |-> Ceil(totalProducts, limitOf(q)),
                         totalProducts |-> totalProducts,
                         hasNext |-> hasNext(skip, Len(found), totalProducts),
                         hasPrev |-> pageOf(q) > 1,
                         paged |-> pageOf(q) = 1 \/ follows,
                         acc |-> IF pageOf(q) = 1 THEN found
                                 ELSE IF follows THEN resp.acc \o found
                                 ELSE <<>>]
        /\ UNCHANGED <<users, liked, products, nextId, req, nreq, calls, fetched, obs,
                       client>>

----------------------------------------------------------------------------
(* GET /api/products/category/:category: getProductsByCategory *)

\* productSchema.statics.getByCategory: { category, status: 'active' }
getByCategory(category) ==
    [status |-> "active", category |-> category, gte |-> Absent, lte |-> Absent]

getProductsByCategory(category, page, limit) ==
    LET q == BrowseQuery(category, page, limit, "", "", "", "")
        f == getByCategory(category)
        skip == (pageOf(q) - 1) * limitOf(q)
        totalProducts == Cardinality(Find(f))
    IN  /\ IF skip < 0
           THEN \* the store rejects a negative skip: the catch answers 500
                resp' = [op |-> "category", status |-> 500, query |-> q]
           ELSE
            \E o \in Sorted(Find(f), "createdAt", 0 - 1) :
            resp' = [op |-> "category", status |-> 200, query |-> q,
                     products |-> SkipLimit(o, skip, limitOf(q)),
                     currentPage |-> pageOf(q),
                     totalPages |-> Ceil(totalProducts, limitOf(q)),
                     totalProducts |-> totalProducts]
        /\ UNCHANGED <<users, liked, products, nextId, req, nreq, calls, fetched, obs,
                       client>>

----------------------------------------------------------------------------
(* GET /api/products/search: validate(searchSchema), searchProducts *)

\* req.query; "" is a parameter the request does not give
SearchQuery(search, loc, category, maxDistance) ==
    [search |-> search, loc |-> loc, category |-> category, maxDistance |-> maxDistance]
SearchQueries ==
    {SearchQuery(k, "0,0", c, m) :
        k \in {"cam", "PEN", "book", "p.n", " ", "zzz"},
        c \in {"", "Books"}, m \in {"", "10"}}
    \cup {SearchQuery("cam", l, "", "") :
            l \in {"0.1,0", "1000,1000", "0,1000", "abc", ""}}
    \cup {SearchQuery("", "0,0", "", "")}

\* loc.split(',') on the request strings the model draws from
split(loc) ==
    CASE loc = "0,0"       -> <<"0", "0">>
      [] loc = "0.1,0"     -> <<"0.1", "0">>
      [] loc = "1000,1000" -> <<"1000", "1000">>
      [] loc = "0,1000"    -> <<"0", "1000">>
      [] OTHER             -> <<loc>>

\* /^-?\d+\.?\d*,-?\d+\.?\d*$/ on the request strings the model draws from
locRegex(loc) == loc \in {"0,0", "0.1,0", "1000,1000", "0,1000"}

\* searchSchema: search of 1 to 100 characters, loc of the format, category
\* of the enum if given, maxDistance an integer from 1 to 1000 if given
searchSchema(q) ==
    /\ Len(Chars(q.search)) >= 1 /\ Len(Chars(q.search)) <= 100
    /\ locRegex(q.loc)
    /\ q.category # "" => q.category \in Categories
    /\ q.maxDistance # "" =>
            /\ ~IsNaN(parseInt(q.maxDistance))
            /\ parseInt(q.maxDistance) > 0 /\ parseInt(q.maxDistance) <= 1000

\* validate(searchSchema) of the route: the middleware's file is not among
\* the sources; it answers 400 unless the schema accepts the query
validateSearch(q) == searchSchema(q)

\* { $regex: pattern, $options: 'i' } on a text, for patterns made of
\* literal characters and the wildcard "."
RegexTest(pattern, text) ==
    \E i \in 0..(Len(text) - Len(pattern)) :
        \A j \in 1..Len(pattern) :
            \/ pattern[j] = "."
            \/ toLowerCase(pattern[j]) = toLowerCase(text[i + j])

\* the $or of the three $regex conditions
regexOr(d, search) ==
    \/ RegexTest(Chars(search), Chars(d.pname))
    \/ RegexTest(Chars(search), Chars(d.pdesc))
    \/ RegexTest(Chars(search), Chars(d.category))

\* distance in metres between two [longitude, latitude] points, in
\* thousandths of a degree, that lie on one meridian
Distance(a, b) == (Abs(a[2] - b[2]) * 111319) \div 1000

\* a GeoJSON point the store accepts
ValidPoint(c) ==
    /\ ~IsNaN(c[1]) /\ c[1] >= 0 - LongMax /\ c[1] <= LongMax
    /\ ~IsNaN(c[2]) /\ c[2] >= 0 - LatMax /\ c[2] <= LatMax

\* Mutant: the request's maxDistance is not read
maxDistanceMetres_default(q) == 50 * 1000

\* maxDistance = 50 unless given; $maxDistance: maxDistance * 1000
maxDistanceMetres(q) ==
    (IF q.maxDistance = "" THEN 50 ELSE parseInt(q.maxDistance)) * 1000

\* the ids Product.find(query) matches: $or, status, category, pLoc.$near
SearchFind(q, coordinates) ==
    {p \in DOMAIN products :
        /\ regexOr(products[p], q.search)
        /\ products[p].status = "active"
        /\ q.category # "" => products[p].category = q.category
        /\ Distance(<<products[p].long, products[p].lat>>, coordinates)
                <= maxDistanceMetres(q)}

\* the response of the search route; queried is history: Product.find ran
SearchResponse(q, status, found, queried) ==
    [op |-> "search", status |-> status, query |-> q, products |-> found,
     queried |-> queried]

searchProducts(q) ==
    LET parts == split(q.loc)
        latitude == parseFloat(parts[1])
        longitude == IF Len(parts) >= 2 THEN parseFloat(parts[2]) ELSE NaN
        coordinates == <<longitude, latitude>>
    IN  /\ IF ~validateSearch(q)
           THEN resp' = SearchResponse(q, 400, <<>>, FALSE)
           ELSE IF ~ValidPoint(coordinates)
           THEN \* the store rejects the query: the catch answers 500
                resp' = SearchResponse(q, 500, <<>>, TRUE)
           ELSE \* .sort({ createdAt: -1 }) replaces the order of $near
                \E o \in Sorted(SearchFind(q, coordinates), "createdAt", 0 - 1) :
                    resp' = SearchResponse(q, 200, o, TRUE)
        /\ UNCHANGED <<users, liked, products, nextId, req, nreq, calls, fetched, obs,
                       client>>

----------------------------------------------------------------------------
(* The queries on every catalog of at most MaxCatalog products *)

QInit ==
    \E n \in 0..MaxCatalog :
        \E bodies \in [1..n -> CatalogBodies] :
            /\ products = Catalog(bodies)
            /\ nextId = n + 1
            /\ users = {"u1"}
            /\ liked = [u \in Users |-> <<>>]
            /\ req = [s \in Slots |-> Idle]
            /\ nreq = n
            /\ resp = NoResponse
            /\ calls = [k \in Users \X ProductIds |-> 0]
            /\ fetched = [p \in ProductIds |-> 0]
            /\ obs = [k \in Users \X ProductIds |-> ObsIdle]
            /\ store = initialState
            /\ mutations = <<>>
            /\ liked0 = <<>>

QNext ==
    \/ \E q \in BrowseQueries : getProducts(q)
    \/ \E c \in {"Books", "Other"}, pg \in {"", "2", "0"} :
            getProductsByCategory(c, pg, "1")
    \/ \E q \in SearchQueries : searchProducts(q)

QuerySpec == QInit /\ [][QNext]_vars

----------------------------------------------------------------------------
(* The routes behind authenticateToken, with any Authorization header *)

\* the headers a request may carry
Tokens ==
    {NoHeader, Malformed, Expired("u1")} \cup {Bearer(u) : u \in Users}

\* the create bodies of these requests: one that is stored, one without image
GatedBodies ==
    {CreateBody("150", "90", "-180", TRUE, 0 - 1),
     CreateBody("150", "90", "-180", FALSE, 0 - 1)}

\* res.json({ data: { products } }): the response to request r with the ids
\* of the products it lists, in order
ListResponse(r, status, found) ==
    [op |-> r.op, uid |-> r.uid, pid |-> r.pid, auth |-> r.auth, body |-> NoBody,
     status |-> status, isLiked |-> "", products |-> found]

\* POST /api/products/my-products: authenticateToken, getUserProducts;
\* Product.getUserProducts is find({ addedBy: userId }).sort({ createdAt: -1 })
getUserProducts(s, token) ==
    LET a == authenticateToken(token)
        u == a.userId
        userId == ObjectId(u)
        found == {p \in DOMAIN products : ObjectId(products[p].addedBy) = userId}
        r == [Idle EXCEPT !.op = "my-products", !.uid = u, !.auth = token]
    IN  /\ Receive(s)
        /\ IF a.status # 200
           THEN Unauthorized(s, "my-products", token, 0, a.status)
           ELSE /\ UNCHANGED req
                /\ \E o \in Sorted(found, "createdAt", 0 - 1) :
                       resp' = ListResponse(r, 200, o)
        /\ UNCHANGED <<users, liked, products, nextId, calls, fetched, obs,
                       client>>

populate_none(ids) == <<>>

\* populate('likedProducts') of an array of ids: the documents that exist,
\* in the array's order; an id without a document leaves no entry
populate(ids) == SelectSeq(ids, LAMBDA p : p \in DOMAIN products)

\* POST /api/liked-products: authenticateToken, likedProducts
likedProducts(s, token) ==
    LET a == authenticateToken(token)
        u == a.userId
        r == [Idle EXCEPT !.op = "liked-products", !.uid = u, !.auth = token]
    IN  /\ Receive(s)
        /\ IF a.status # 200
           THEN Unauthorized(s, "liked-products", token, 0, a.status)
           ELSE /\ UNCHANGED req
                /\ IF u \notin users
                   THEN resp' = ListResponse(r, 404, <<>>)
                   ELSE resp' = ListResponse(r, 200, populate(liked[u]))
        /\ UNCHANGED <<users, liked, products, nextId, calls, fetched, obs,
                       client>>

GatedNext ==
    \/ \E u \in Users : signup(u)
    \/ \E s \in Slots, token \in Tokens, body \in GatedBodies :
            addProduct(s, token, body)
    \/ \E s \in Slots, token \in Tokens, p \in ProductIds : likeProducts(s, token, p)
    \/ \E s \in Slots : likeFindProduct(s)
    \/ \E s \in Slots : likeSaveProduct(s)
    \/ \E s \in Slots : likeSaveUser(s)
    \/ \E s \in Slots, token \in Tokens, p \in ProductIds : updateProduct(s, token, p)
    \/ \E s \in Slots : updateCheck(s, FullBody("u2"))
    \/ \E s \in Slots, token \in Tokens, p \in ProductIds : deleteProduct(s, token, p)
    \/ \E s \in Slots : deleteCheck(s)
    \/ \E s \in Slots, token \in Tokens : getUserProducts(s, token)
    \/ \E s \in Slots, token \in Tokens : likedProducts(s, token)

GatedSpec == Init /\ [][GatedNext]_vars

----------------------------------------------------------------------------
(* The like handler with a store that may fail a write *)

\* await user.save() rejects (the store is unreachable or times out): the
\* catch answers 500; the product's likesCount has been written before
likeSaveUserFails(s) ==
    LET r == req[s]
    IN  /\ r.pc = "like_saveUser"
        /\ Answer(s, r, 500, "")
        /\ obs' = ObsAnswer(s, r.uid, r.pid, "error")
        /\ UNCHANGED <<users, liked, products, nextId, calls, fetched, nreq,
                       client>>

FaultNext ==
    \/ \E u \in Users : signup(u)
    \/ \E s \in Slots, token \in Accepted, body \in GatedBodies :
            addProduct(s, token, body)
    \/ \E s \in Slots, token \in Accepted, p \in ProductIds : likeProducts(s, token, p)
    \/ \E s \in Slots : likeFindProduct(s)
    \/ \E s \in Slots : likeSaveProduct(s)
    \/ \E s \in Slots : likeSaveUser(s)
    \/ \E s \in Slots : likeSaveUserFails(s)

FaultSpec == Init /\ [][FaultNext]_vars

----------------------------------------------------------------------------
(* The web client's optimistic like: useLikeProduct / useProductLike over  *)
(* the product store.  A mutation toggles the product in the store when it *)
(* is issued (onMutate) and again when its request fails (onError).        *)

MaxMutations == 3

\* product ids as the client holds them
ClientProducts == {"p1", "p2"}

\* the liked lists the store may be rehydrated with ('product-storage')
PersistedLists == {<<>>, <<"p1">>, <<"p2", "p1">>}

toggleLike_addOnly(currentLiked, productId) ==
    IF \E i \in 1..Len(currentLiked) : currentLiked[i] = productId
    THEN currentLiked
    ELSE Append(currentLiked, productId)

\* toggleLike of the store: filter the id out if the list includes it,
\* append it otherwise
toggleLike(currentLiked, productId) ==
    IF \E i \in 1..Len(currentLiked) : currentLiked[i] = productId
    THEN SelectSeq(currentLiked, LAMBDA id : id # productId)
    ELSE Append(currentLiked, productId)

ClientInit ==
    /\ users = {}
    /\ liked = [u \in Users |-> <<>>]
    /\ products = <<>>
    /\ nextId = 1
    /\ req = [s \in Slots |-> Idle]
    /\ nreq = 0
    /\ resp = NoResponse
    /\ calls = [k \in Users \X ProductIds |-> 0]
    /\ fetched = [p \in ProductIds |-> 0]
    /\ obs = [k \in Users \X ProductIds |-> ObsIdle]
    /\ liked0 \in PersistedLists
    /\ store = [initialState EXCEPT !.likedProducts = liked0]
    /\ mutations = <<>>

\* mutate(productId): onMutate toggles the product in the store, then the
\* request is sent
onMutate(productId) ==
    /\ Len(mutations) < MaxMutations
    /\ store' = [store EXCEPT !.likedProducts = toggleLike(@, productId)]
    /\ mutations' = Append(mutations, [productId |-> productId, status |-> "pending"])
    /\ UNCHANGED <<liked0, server>>

\* the request of mutation i is answered 2xx: onSuccess leaves the store alone
onSuccess(i) ==
    /\ mutations[i].status = "pending"
    /\ mutations' = [mutations EXCEPT ![i].status = "success"]
    /\ UNCHANGED <<store, liked0, server>>

\* the request of mutation i fails: onError toggles the product again
onError(i) ==
    /\ mutations[i].status = "pending"
    /\ store' = [store EXCEPT !.likedProducts = toggleLike(@, mutations[i].productId)]
    /\ mutations' = [mutations EXCEPT ![i].status = "error"]
    /\ UNCHANGED <<liked0, server>>

ClientNext ==
    \/ \E productId \in ClientProducts : onMutate(productId)
    \/ \E i \in DOMAIN mutations : onSuccess(i)
    \/ \E i \in DOMAIN mutations : onError(i)

ClientSpec == ClientInit /\ [][ClientNext]_vars

----------------------------------------------------------------------------
(* Properties *)

LikeInFlightOn(p) == \E s \in Slots : req[s].op = "like" /\ req[s].pid = p
ViewInFlightOn(p) == \E s \in Slots : req[s].op = "view" /\ req[s].pid = p
Likers(p) == {u \in Users : p \in Range(liked[u])}

\* the handler in slot s answers its request in this step
Answers(s) == ~Free(s) /\ req'[s] = Idle

\* C1: when distinct users who have not liked product p each send one like
\* request for p, in any interleaving, every answer carries isLiked = true
\* and, once the requests are answered, likesCount of p is the number of
\* those users (p starts at 0)
C1_NoLostLike ==
    \A p \in DOMAIN products :
        (\A u \in Users : calls[<<u, p>>] <= 1) =>
            /\ (resp.op = "like" /\ resp.pid = p /\ resp.status = 200)
                    => resp.isLiked = "true"
            /\ ~LikeInFlightOn(p) =>
                    products[p].likesCount =
                        Cardinality({u \in Users : calls[<<u, p>>] = 1})

\* C2: once the detail fetches of product p are answered, viewsCount of p is
\* the number of fetches of p that were answered successfully
C2_EveryViewCounted ==
    \A p \in DOMAIN products :
        ~ViewInFlightOn(p) => products[p].viewsCount = fetched[p]

\* C3: in a state where no like request is in progress, likesCount of every
\* product is the number of users whose likedProducts holds the product's id
C3_LikesCountIsLikers ==
    (\A s \in Slots : req[s].op # "like") =>
        \A p \in DOMAIN products : products[p].likesCount = Cardinality(Likers(p))

\* C4: likesCount of every product is at least 0 in every reachable state
C4_LikesCountNonNegative ==
    \A p \in DOMAIN products : products[p].likesCount >= 0

\* an unlike request found likesCount at 0 and saved the product all the same
C4_Witness ==
    \E s \in Slots :
        /\ req[s].pc = "like_saveUser"
        /\ req[s].isLiked
        /\ req[s].doc.likesCount = 0
        /\ req[s].pid \in DOMAIN products

\* C5: two like calls of user u on product p, u not liking p at first, run
\* one after the other with no other operation on p in between, answer
\* isLiked = true and then isLiked = false, and leave likesCount of p and the
\* liked set of u as they were before the first call
C5_ToggleTwiceRestores ==
    \A k \in DOMAIN obs :
        obs[k].st = 4 =>
            /\ obs[k].r1 = "true"
            /\ obs[k].r2 = "false"
            /\ k[2] \in DOMAIN products
            /\ products[k[2]].likesCount = obs[k].likes0
            /\ Range(liked[k[1]]) = Range(obs[k].liked0)

\* the second of two back-to-back like calls has been answered
C5_Witness ==
    \E k \in DOMAIN obs : obs[k].st = 4 /\ obs[k].r2 = "false"

\* the update or delete request in slot s is about to run its checks on a
\* product it found
ChecksFound(s) ==
    /\ req[s].pc \in {"update_check", "delete_check"}
    /\ req[s].doc.exists

\* C6: an update or delete request of an authenticated user who is not the
\* owner of the product it found is answered 403 and the product collection
\* is left as it was
C6_NonOwnerForbidden ==
    [][\A s \in Slots :
          (ChecksFound(s) /\ Answers(s) /\ req[s].doc.addedBy # req[s].uid) =>
                resp'.status = 403 /\ products' = products]_vars

\* a delete request of a user who is not the owner has been answered 403 and
\* the product is still stored
C6_Witness ==
    /\ resp.op = "delete"
    /\ resp.status = 403
    /\ resp.pid \in DOMAIN products
    /\ products[resp.pid].addedBy # resp.uid

\* C7: an update or delete request made by the user who created the product
\* it found passes the ownership check: it is not answered 403, and a delete
\* that is answered 200 has removed the product
C7_OwnerAllowed ==
    [][\A s \in Slots :
          (ChecksFound(s) /\ Answers(s) /\ req[s].doc.addedBy = req[s].uid) =>
                /\ resp'.status # 403
                /\ (req[s].op = "delete" /\ resp'.status = 200)
                        => req[s].pid \notin DOMAIN products']_vars

\* C8: addedBy of a stored product is the same after every step
C8_OwnerNeverChanges ==
    [][\A p \in DOMAIN products \cap DOMAIN products' :
          products'[p].addedBy = products[p].addedBy]_vars

\* the owner's update request whose body is {$set: {addedBy: another user}}
\* has been answered and the product still names its creator
C8_Witness ==
    /\ resp.op = "update"
    /\ resp.pid \in DOMAIN products
    /\ resp.uid = products[resp.pid].addedBy
    /\ resp.body.setAddedBy \in Users \ {resp.uid}

\* C9: likesCount of a stored product changes only in the save of a like
\* request for it and viewsCount only in the save of a detail fetch of it;
\* a product that is created starts with both at 0
C9_CountersOnlyByInteractions ==
    [][\A p \in DOMAIN products' :
          IF p \in DOMAIN products
          THEN /\ products'[p].likesCount # products[p].likesCount =>
                     \E s \in Slots : /\ req[s].pc = "like_saveProduct"
                                      /\ req[s].pid = p
                                      /\ req'[s].pc = "like_saveUser"
               /\ products'[p].viewsCount # products[p].viewsCount =>
                     \E s \in Slots : /\ req[s].pc = "view_save"
                                      /\ req[s].pid = p
                                      /\ Answers(s)
          ELSE products'[p].likesCount = 0 /\ products'[p].viewsCount = 0]_vars

\* a create request whose body carries likesCount: 7 has been answered 201
\* and the product it created has likesCount 0
C9_Witness ==
    /\ resp.op = "create"
    /\ resp.status = 201
    /\ resp.body.likesCount = 7
    /\ resp.pid \in DOMAIN products
    /\ products[resp.pid].likesCount = 0
    /\ products[resp.pid].viewsCount = 0

\* C10: every stored product has a price above 0, a longitude in
\* [-180, 180] and a latitude in [-90, 90]
C10_StoredProductsValid ==
    \A p \in DOMAIN products :
        /\ products[p].price > 0
        /\ products[p].long >= 0 - LongMax /\ products[p].long <= LongMax
        /\ products[p].lat >= 0 - LatMax /\ products[p].lat <= LatMax

\* a product created with coordinates on the limits is stored, and an update
\* request for it that lowers the price by more than the price is answered
C10_Witness ==
    /\ resp.op = "update"
    /\ resp.pid \in DOMAIN products
    /\ resp.body.incPrice # Absent
    /\ products[resp.pid].price + resp.body.incPrice <= 0
    /\ products[resp.pid].lat = LatMax
    /\ products[resp.pid].long = 0 - LongMax

\* price, longitude and latitude break a product invariant
ViolatesInvariant(price, long, lat) ==
    ~(/\ price > 0
      /\ long >= 0 - LongMax /\ long <= LongMax
      /\ lat >= 0 - LatMax /\ lat <= LatMax)

\* this step is addProduct handling a request
CreateStep == req' = req /\ nreq' = nreq + 1 /\ resp'.op = "create"

\* the product the update body would leave, had it been applied to d
Merged(d, body) == applyUpdate(d, castUpdate(sanitize(body)))

\* C11: a create request whose price or coordinates break a product
\* invariant is not answered 201, an update request whose body would leave
\* the product it found breaking one is not answered 200, and either leaves
\* the product collection as it was
C11_InvalidRejectedUnchanged ==
    [][/\ (/\ CreateStep
           /\ ViolatesInvariant(parseFloat(resp'.body.price),
                                parseFloat(resp'.body.plong),
                                parseFloat(resp'.body.plat)))
            => resp'.status # 201 /\ products' = products
       /\ \A s \in Slots :
            (/\ req[s].pc = "update_check" /\ Answers(s) /\ req[s].doc.exists
             /\ LET m == Merged(req[s].doc, resp'.body)
                IN  ViolatesInvariant(m.price, m.long, m.lat))
            => resp'.status # 200 /\ products' = products]_vars

\* a create request with latitude 91 has been refused while a product is
\* stored
C11_Witness ==
    /\ resp.op = "create"
    /\ resp.body.plat = "91"
    /\ resp.status = 400
    /\ products # <<>>

\* C12: an update request by the owner of the product it found, whose body
\* fails the validators, is answered 400
C12_OwnerValidationError400 ==
    [][\A s \in Slots :
          (/\ req[s].pc = "update_check" /\ Answers(s) /\ req[s].doc.exists
           /\ req[s].doc.addedBy = req[s].uid
           /\ ~updateValidators(castUpdate(sanitize(resp'.body))))
          => resp'.status = 400]_vars

----------------------------------------------------------------------------
(* Properties of the catalog queries *)

\* the keyword occurs in the text, letter case aside
Occurs(keyword, text) ==
    \E i \in 0..(Len(text) - Len(keyword)) :
        \A j \in 1..Len(keyword) : toLowerCase(keyword[j]) = toLowerCase(text[i + j])

\* the [longitude, latitude] a search request asks about
QueryPoint(q) == <<parseFloat(split(q.loc)[2]), parseFloat(split(q.loc)[1])>>

\* distance in metres of stored product p from the point of search request q
DistanceOf(p, q) == Distance(<<products[p].long, products[p].lat>>, QueryPoint(q))

\* maxDistance of a search request in kilometres, 50 when it gives none
MaxKm(q) == IF q.maxDistance = "" THEN 50 ELSE parseInt(q.maxDistance)

SearchAnswered == resp.op = "search" /\ resp.status = 200

\* C13: the products of a search response come by non-decreasing distance
\* from the query point, those at equal distance in creation order
C13_SearchOrderedByDistance ==
    SearchAnswered =>
        \A i, j \in 1..Len(resp.products) :
            i < j =>
                LET a == resp.products[i]
                    b == resp.products[j]
                IN  /\ DistanceOf(a, resp.query) <= DistanceOf(b, resp.query)
                    /\ DistanceOf(a, resp.query) = DistanceOf(b, resp.query)
                            => products[a].createdAt < products[b].createdAt

\* C14: no product of a search response is farther from the query point
\* than maxDistance kilometres (50 when the request gives none)
C14_SearchWithinMaxDistance ==
    SearchAnswered =>
        \A i \in 1..Len(resp.products) :
            DistanceOf(resp.products[i], resp.query) <= MaxKm(resp.query) * 1000

\* a search with maxDistance=10 returned a product and left out a stored
\* product that matches the keyword and is farther than 10 km
C14_Witness ==
    /\ SearchAnswered
    /\ resp.query.maxDistance = "10"
    /\ resp.products # <<>>
    /\ \E p \in DOMAIN products :
            /\ regexOr(products[p], resp.query.search)
            /\ DistanceOf(p, resp.query) > 10 * 1000
            /\ p \notin Range(resp.products)

\* what the search is to return among the products in range
SearchWanted(d, q) ==
    /\ d.status = "active"
    /\ \/ Occurs(Chars(q.search), Chars(d.pname))
       \/ Occurs(Chars(q.search), Chars(d.pdesc))
       \/ Occurs(Chars(q.search), Chars(d.category))
    /\ q.category # "" => d.category = q.category

\* C15: a search response holds a stored product within range if and only
\* if the product is active, the keyword occurs in its name, description or
\* category, and its category is the category parameter when one is given
C15_SearchMatchesKeyword ==
    SearchAnswered =>
        \A p \in DOMAIN products :
            DistanceOf(p, resp.query) <= MaxKm(resp.query) * 1000 =>
                (p \in Range(resp.products) <=> SearchWanted(products[p], resp.query))

\* the keyword is empty once trimmed, or loc is not two numbers in range
InvalidSearch(q) ==
    \/ \A i \in 1..Len(Chars(q.search)) : Chars(q.search)[i] = " "
    \/ Len(split(q.loc)) # 2
    \/ ~ValidPoint(QueryPoint(q))

\* C16: a search request whose keyword is empty after trimming, or whose
\* loc is missing, malformed or out of range, is answered 400 and no query
\* is run on the collection
C16_InvalidSearchRejected ==
    (resp.op = "search" /\ InvalidSearch(resp.query)) =>
        resp.status = 400 /\ ~resp.queried

\* what a browse request is to list: status active unless one is asked for,
\* the category asked for, and a price within the bounds given
BrowseWanted(d, q) ==
    /\ d.status = (IF q.status = "" THEN "active" ELSE q.status)
    /\ q.catName # "" => d.category = q.catName
    /\ q.minPrice # "" => parseFloat(q.minPrice) <= d.price
    /\ q.maxPrice # "" => d.price <= parseFloat(q.maxPrice)

WantedIds(q) == {p \in DOMAIN products : BrowseWanted(products[p], q)}

\* C17: every product of a browse response satisfies every filter of the
\* request, and a response that is the whole listing (page 1, no next page)
\* holds exactly the stored products that satisfy them
C17_BrowseFilters ==
    BrowseAnswered =>
        /\ Range(resp.products) \subseteq WantedIds(resp.query)
        /\ (resp.currentPage = 1 /\ ~resp.hasNext)
                => Range(resp.products) = WantedIds(resp.query)

\* a browse with maxPrice=100 returned a product and left out a stored
\* product that costs more
C17_Witness ==
    /\ BrowseAnswered
    /\ resp.query.maxPrice = "100"
    /\ resp.products # <<>>
    /\ \E p \in DOMAIN products :
            products[p].price > 100000 /\ p \notin Range(resp.products)

\* C18: the products of a browse response come by non-decreasing price for
\* sortBy=price-asc, by non-increasing price for sortBy=price-desc, and
\* newest first for any other sortBy or none
C18_BrowseSorted ==
    BrowseAnswered =>
        \A i, j \in 1..Len(resp.products) :
            i < j =>
                LET a == products[resp.products[i]]
                    b == products[resp.products[j]]
                IN  CASE resp.query.sortBy = "price-asc"  -> a.price <= b.price
                      [] resp.query.sortBy = "price-desc" -> a.price >= b.price
                      [] OTHER -> a.createdAt > b.createdAt

\* a browse with sortBy=price-desc returned the dearer product first
\* although it was created after the cheaper one
C18_Witness ==
    /\ BrowseAnswered
    /\ resp.query.sortBy = "price-desc"
    /\ Len(resp.products) = 2
    /\ products[resp.products[1]].price > products[resp.products[2]].price
    /\ products[resp.products[1]].createdAt < products[resp.products[2]].createdAt

\* offset = (page - 1) * limit of a browse response
OffsetOf(r) == (r.currentPage - 1) * limitOf(r.query)

\* C19: totalProducts of a browse response is the number of stored products
\* that satisfy the filters, and hasNext is true exactly when offset + the
\* number of returned products < totalProducts
C19_BrowsePagination ==
    BrowseAnswered =>
        /\ resp.totalProducts = Cardinality(WantedIds(resp.query))
        /\ resp.hasNext <=> (OffsetOf(resp) + Len(resp.products) < resp.totalProducts)

\* the last page of a listing of two products, one per page: it holds one
\* product, totalProducts is 2 and hasNext is false
C19_Witness ==
    /\ BrowseAnswered
    /\ resp.currentPage = 2
    /\ Len(resp.products) = 1
    /\ resp.totalProducts = 2
    /\ ~resp.hasNext

\* C20: the pages 1, 2, ... of a listing, requested in turn until hasNext is
\* false, hold totalProducts products together, each product that satisfies
\* the filters once
C20_PagesComplete ==
    (BrowseAnswered /\ resp.paged /\ ~resp.hasNext) =>
        /\ Len(resp.acc) = resp.totalProducts
        /\ \A i, j \in 1..Len(resp.acc) : i # j => resp.acc[i] # resp.acc[j]
        /\ Range(resp.acc) = WantedIds(resp.query)

\* page or limit of a browse or category request is out of range or not a
\* number
InvalidPaging(q) ==
    \/ IsNaN(pageOf(q)) \/ pageOf(q) < 1
    \/ IsNaN(limitOf(q)) \/ limitOf(q) < 1 \/ limitOf(q) > 100

\* C21: a browse or category request with page < 1, limit < 1, limit > 100
\* or a page or limit that is not a number is answered 400
C21_InvalidPagingRejected ==
    (resp.op \in {"browse", "category"} /\ InvalidPaging(resp.query)) =>
        resp.status = 400

----------------------------------------------------------------------------
(* The routes behind authenticateToken *)

GatedOps == {"create", "update", "delete", "my-products", "like", "liked-products"}

\* the header carries a token that verifies, has not expired and names an
\* account that exists and is active
GoodToken(token) ==
    /\ token.kind = "valid"
    /\ token.userId \in users
    /\ isActive[token.userId]

\* the slots a request has entered in this step
Entered == {s \in Slots : Free(s) /\ req'[s] # Idle}

AnsweredAtOnce(op) == nreq' = nreq + 1 /\ req' = req /\ resp'.op = op

C25_ValidCreateAccepted ==
    [][(/\ CreateStep
        /\ GoodToken(resp'.auth)
        /\ addProductSchema(resp'.body) /\ resp'.body.pimage) =>
            /\ resp'.status = 201
            /\ \E p \in DOMAIN products' \ DOMAIN products :
                /\ DOMAIN products' = DOMAIN products \cup {p}
                /\ \A q \in DOMAIN products : products'[q] = products[q]
                /\ products'[p].addedBy = resp'.uid
                /\ products'[p].status = "active"
                /\ products'[p].likesCount = 0
                /\ products'[p].viewsCount = 0]_vars

\* C26: the liked list of every user holds each product id at most once
C26_LikedIsSet ==
    \A u \in Users : \A i, j \in 1..Len(liked[u]) :
        liked[u][i] = liked[u][j] => i = j

\* a like or detail request on product p is in flight in a slot other than s
InteractionInFlight(s, p) ==
    \E t \in Slots \ {s} :
        ~Free(t) /\ req[t].op \in {"like", "view"} /\ req[t].pid = p

\* C27: an update by the owner of the product, made while a like or detail
\* request on the product is in flight, leaves likesCount and viewsCount as
\* they are and stores the owner's price and status
C27_UpdateKeepsCounters ==
    [][\A s \in Slots :
          (/\ req[s].pc = "update_check" /\ Answers(s)
           /\ req[s].pid \in DOMAIN products
           /\ req[s].doc.exists /\ req[s].doc.addedBy = req[s].uid
           /\ resp'.body.price # Absent /\ resp'.body.status # ""
           /\ updateValidators(castUpdate(sanitize(resp'.body)))
           /\ InteractionInFlight(s, req[s].pid))
          => /\ products'[req[s].pid].price = resp'.body.price
             /\ products'[req[s].pid].status = resp'.body.status
             /\ products'[req[s].pid].likesCount = products[req[s].pid].likesCount
             /\ products'[req[s].pid].viewsCount = products[req[s].pid].viewsCount]_vars

\* C28: a like call that ran with nothing else in flight on the product and
\* ended with an error leaves the user's liked list and the product's
\* likesCount as they were when it started
C28_LikeAllOrNothing ==
    [][\A k \in DOMAIN obs :
          (obs[k].st = 1 /\ obs'[k].st = 2 /\ obs'[k].r1 = "error") =>
              /\ liked'[k[1]] = obs[k].liked0
              /\ k[2] \in DOMAIN products' =>
                    products'[k[2]].likesCount = obs[k].likes0]_vars

\* product p has been stored and deleted: ids are given out once
Deleted(p) == p < nextId /\ p \notin DOMAIN products

----------------------------------------------------------------------------
(* Properties of the client's optimistic like *)

\* the like mutations of product p with the given status
MutationsOf(p, status) ==
    {i \in DOMAIN mutations :
        mutations[i].productId = p /\ mutations[i].status = status}

IsMember(list, p) == \E i \in 1..Len(list) : list[i] = p

\* C30: once no like mutation of a product is pending, the product is in the
\* store's liked list exactly when its membership at the start, flipped once
\* per successful mutation, says so
C30_OptimisticLikeSettles ==
    \A p \in ClientProducts :
        MutationsOf(p, "pending") = {} =>
            (IsMember(store.likedProducts, p) <=>
                (IsMember(liked0, p) <=>
                    Cardinality(MutationsOf(p, "success")) % 2 = 0))

\* two mutations of a liked product overlapped; the first issued failed
\* after the second succeeded
C30_Witness ==
    /\ IsMember(liked0, "p1")
    /\ Len(mutations) >= 2
    /\ mutations[1].productId = "p1" /\ mutations[1].status = "error"
    /\ mutations[2].productId = "p1" /\ mutations[2].status = "success"
    /\ MutationsOf("p1", "pending") = {}

====
